---------------------------- MODULE Spec2Model ----------------------------
(***************************************************************************)
(* A model of the scagnostics core of AVA's chart-advisor:                 *)
(*   findScag/util.ts   quickselect, quantileSorted, quantile,             *)
(*                      quantileArray, multiQuantileSelect, quantileIndex  *)
(*   findScag/grapher   createGraph, mst, DisjointSet, sortVerticies       *)
(*   scagScorer         the adaptive binning loop and the option flow      *)
(*                                                                         *)
(* Conventions.                                                            *)
(*  - A JavaScript array is a sequence; the element at JavaScript index i  *)
(*    is At(a, i), and an index outside the array reads Undefined.         *)
(*  - A quantile p is the exact fraction <<num, den>>.                     *)
(*  - A quantile index may be a half-integer (idx - 0.5); it is kept       *)
(*    doubled (suffix 2).  A quantile value may be a half-sum (a + b)/2;   *)
(*    it is kept doubled as well (2*a for a plain element, a + b for an    *)
(*    average).                                                            *)
(***************************************************************************)
EXTENDS Integers, Sequences, FiniteSets, TLC

VARIABLES
    call,      \* the function applied in this run ("none" before the call)
    x,         \* util.ts: the input array (x, arr)
    p,         \* util.ts: the requested quantiles, a list of <<num, den>>
    k,         \* quickselect: k
    left,      \* quickselect: left
    right,     \* quickselect: right
    copy,      \* util.ts: the array after the call (copy, or arr mutated)
    results,   \* util.ts: what the call returned
    triangles, \* grapher: the triangle list passed to createGraph
    graph,     \* grapher: the graph createGraph returned ({nodes, links})
    mstree,    \* grapher: the outcome of mst(graph)
    popped,    \* grapher: the links in the order edges.pop() yields them
    vertices,  \* grapher: the points passed to sortVerticies
    hull,      \* grapher: the array sortVerticies returned
    disjointSet, \* grapher: a DisjointSet object ({index_}, threw once a call threw)
    made,      \* grapher: the ids passed to makeSet so far
    unions,    \* grapher: the pairs {x, y} passed to union, both made before
    sites,     \* grapher: the sites passed to delaunayFromPoints
    delaunay,  \* grapher: the object delaunayFromPoints returned ({triangles, points})
    cellTriangles, \* grapher: delaunay.triangles in concaveHull1 (flat index triples)
    longEdge,  \* grapher: the longEdge passed to concaveHull1, in 1/DistanceScale
    cellsIn,   \* grapher: the cells passed to processCells
    cells,     \* grapher: the cells concaveHull1 returned / processCells has left
    hulls,     \* grapher: the hulls of processCells, a list of vertex sets
    pc,        \* scagScorer: the position in the function
    options,   \* scagScorer: the options record
    uniqueKeys,          \* scagScorer: uniqueKeys.length
    startBinGridSize,    \* scagScorer: the local of that name
    minNumOfBins,        \* scagScorer: the local of that name
    maxNumOfBins,        \* scagScorer: the local of that name
    binSize,             \* scagScorer: the local of that name, in 1/BinSizeUnit
    bins,                \* scagScorer: bins.length
    passes,              \* scagScorer: the passes of the do-while loop, modulo PassModulus
    outlyingUpperBound,  \* scagScorer: the local of that name
    outlying,            \* scagScorer: the Outlying object ({upperBound})
    thisInstance,        \* scagScorer: the result object ({outlyingUpperBound})
    convexBound          \* scagScorer: the second argument of new Convex

vars == <<call, x, p, k, left, right, copy, results, triangles, graph, mstree, popped,
          vertices, hull, disjointSet, made, unions, sites, delaunay,
          cellTriangles, longEdge, cellsIn, cells, hulls,
          pc, options, uniqueKeys, startBinGridSize, minNumOfBins, maxNumOfBins,
          binSize, bins, passes, outlyingUpperBound, outlying, thisInstance, convexBound>>

utilVars == <<x, p, k, left, right, copy, results>>
hullVars == <<vertices, hull>>
forestVars == <<disjointSet, made, unions>>
delaunayVars == <<sites, delaunay>>
cellVars == <<cellTriangles, longEdge, cellsIn, cells, hulls>>
graphVars == <<triangles, graph, mstree, popped, hullVars, forestVars, delaunayVars,
               cellVars>>
binVars == <<uniqueKeys, startBinGridSize, minNumOfBins, maxNumOfBins, binSize, bins,
             passes>>
boundVars == <<outlyingUpperBound, outlying, thisInstance, convexBound>>
scorerVars == <<pc, options, binVars, boundVars>>

---------------------------------------------------------------------------
(* Bounds of the model.                                                    *)
MaxLen == 5
MaxVal == 2
MaxP == 2
MaxTriangles == 2
MaxBinSize == 60
BinSizeUnit == 4
MaxBound == 6
MaxHull == 4
MaxSites == 4
MaxCells == 4
MaxVertex == 3
MaxCoord == 3
PassModulus == 2

Undefined == 0 - 1

Values == 0..MaxVal

RECURSIVE SeqsUpTo(_, _)
SeqsUpTo(S, n) ==
    IF n = 0 THEN {<<>>}
    ELSE LET shorter == SeqsUpTo(S, n - 1)
         IN  shorter \cup {Append(s, e) : s \in {t \in shorter : Len(t) = n - 1}, e \in S}

Arrays == SeqsUpTo(Values, MaxLen) \ {<<>>}

\* p in [0,1] as exact fractions in lowest terms
Quantiles == {<<0, 1>>, <<1, 4>>, <<1, 3>>, <<1, 2>>, <<2, 3>>, <<3, 4>>, <<1, 1>>}

At(a, i) == IF i \in 0..(Len(a) - 1) THEN a[i + 1] ELSE Undefined

\* a < b and a > b of JavaScript: false when either side is undefined
JsLess(a, b) == a # Undefined /\ b # Undefined /\ a < b

---------------------------------------------------------------------------
(* util.ts *)

swap(arr, i, j) == [arr EXCEPT ![i + 1] = arr[j + 1], ![j + 1] = arr[i + 1]]

\* while (arr[i] < t) i++;
RECURSIVE ScanUp(_, _, _)
ScanUp(arr, i, t) == IF JsLess(At(arr, i), t) THEN ScanUp(arr, i + 1, t) ELSE i

\* while (arr[j] > t) j--;
RECURSIVE ScanDown(_, _, _)
ScanDown(arr, j, t) == IF JsLess(t, At(arr, j)) THEN ScanDown(arr, j - 1, t) ELSE j

\* while (i < j) { swap(arr, i, j); i++; j--; scan up; scan down }
RECURSIVE Partition(_, _, _, _)
Partition(arr, i, j, t) ==
    IF i < j
    THEN LET a1 == swap(arr, i, j)
         IN  Partition(a1, ScanUp(a1, i + 1, t), ScanDown(a1, j - 1, t), t)
    ELSE [arr |-> arr, i |-> i, j |-> j]

\* the body of while (right > left); right - left stays below the
\* Floyd-Rivest threshold of 600 for every array of the model
RECURSIVE SelectLoop(_, _, _, _)
SelectLoop(arr, kk, l, r) ==
    IF r > l
    THEN LET t  == At(arr, kk)
             a1 == swap(arr, l, kk)
             a2 == IF JsLess(t, At(a1, r)) THEN swap(a1, l, r) ELSE a1
             pt == Partition(a2, l, r, t)
             j  == IF At(pt.arr, l) = t THEN pt.j ELSE pt.j + 1
             a3 == IF At(pt.arr, l) = t THEN swap(pt.arr, l, pt.j)
                                        ELSE swap(pt.arr, pt.j + 1, r)
             l1 == IF j <= kk THEN j + 1 ELSE l
             r1 == IF kk <= j THEN j - 1 ELSE r
         IN  SelectLoop(a3, kk, l1, r1)
    ELSE arr

\* left = left || 0; right = right || arr.length - 1;
quickselect(arr, kk, l, r) ==
    SelectLoop(arr, kk, IF l = 0 THEN 0 ELSE l, IF r = 0 THEN Len(arr) - 1 ELSE r)

CeilDiv(a, b) == (a + b - 1) \div b

\* idx = len * p is an integer
IsWhole(len, q) == (len * q[1]) % q[2] = 0

\* quantileIndex, doubled
quantileIndex2(len, q) ==
    IF q = <<1, 1>> THEN 2 * (len - 1)
    ELSE IF q = <<0, 1>> THEN 0
    ELSE IF ~IsWhole(len, q) THEN 2 * (CeilDiv(len * q[1], q[2]) - 1)
    ELSE IF len % 2 = 0 THEN 2 * ((len * q[1]) \div q[2]) - 1
    ELSE 2 * ((len * q[1]) \div q[2])

\* quantileSorted with the odd-length case reading one place too low
quantileSortedLow(xs, q) ==
    IF q = <<1, 1>> THEN 2 * At(xs, Len(xs) - 1)
    ELSE IF q = <<0, 1>> THEN 2 * At(xs, 0)
    ELSE IF ~IsWhole(Len(xs), q) THEN 2 * At(xs, CeilDiv(Len(xs) * q[1], q[2]) - 1)
    ELSE IF Len(xs) % 2 = 0
         THEN At(xs, (Len(xs) * q[1]) \div q[2] - 1) + At(xs, (Len(xs) * q[1]) \div q[2])
    ELSE 2 * At(xs, (Len(xs) * q[1]) \div q[2] - 1)

\* quantileSorted, the value doubled (x is not empty and p is in [0,1] in
\* every call of the model, so neither Error is thrown)
quantileSorted(xs, q) ==
    IF q = <<1, 1>> THEN 2 * At(xs, Len(xs) - 1)
    ELSE IF q = <<0, 1>> THEN 2 * At(xs, 0)
    ELSE IF ~IsWhole(Len(xs), q) THEN 2 * At(xs, CeilDiv(Len(xs) * q[1], q[2]) - 1)
    ELSE IF Len(xs) % 2 = 0
         THEN At(xs, (Len(xs) * q[1]) \div q[2] - 1) + At(xs, (Len(xs) * q[1]) \div q[2])
    ELSE 2 * At(xs, (Len(xs) * q[1]) \div q[2])

\* quantileSelect; k2 is k doubled
quantileSelect(arr, k2, l, r) ==
    IF k2 % 2 = 0
    THEN quickselect(arr, k2 \div 2, l, r)
    ELSE LET kf == k2 \div 2
         IN  quickselect(quickselect(arr, kf, l, r), kf + 1, kf + 1, r)

quantile(xs, q) ==
    quantileSorted(quantileSelect(xs, quantileIndex2(Len(xs), q), 0, Len(xs) - 1), q)

\* indices.sort(compare): ascending numeric order
RECURSIVE InsertAsc(_, _)
InsertAsc(s, e) ==
    IF s = <<>> THEN <<e>>
    ELSE IF e < Head(s) THEN <<e>> \o s
    ELSE <<Head(s)>> \o InsertAsc(Tail(s), e)

RECURSIVE SortAsc(_)
SortAsc(s) == IF s = <<>> THEN s ELSE InsertAsc(SortAsc(Tail(s)), Head(s))

\* indices = [0, quantileIndex(len, p[0]), ..., len - 1] sorted, doubled
selectIndices2(len, ps) ==
    SortAsc(<<0>> \o [i \in 1..Len(ps) |-> quantileIndex2(len, ps[i])] \o <<2 * (len - 1)>>)

\* while (stack.length): the stack is a sequence whose last element is its top
RECURSIVE SelectStack(_, _, _)
SelectStack(arr, indices2, stack) ==
    IF stack = <<>> THEN arr
    ELSE LET r    == stack[Len(stack)]
             l    == stack[Len(stack) - 1]
             rest == SubSeq(stack, 1, Len(stack) - 2)
             m    == (l + r) \div 2
         IN  IF r - l <= 1
             THEN SelectStack(arr, indices2, rest)
             ELSE SelectStack(quantileSelect(arr, At(indices2, m),
                                             At(indices2, l) \div 2,
                                             (At(indices2, r) + 1) \div 2),
                              indices2, rest \o <<l, m, m, r>>)

multiQuantileSelect(arr, ps) ==
    LET indices2 == selectIndices2(Len(arr), ps)
    IN  SelectStack(arr, indices2, <<0, Len(indices2) - 1>>)

\* quantileArray with an array p
quantileArray(xs, ps) ==
    LET sel == multiQuantileSelect(xs, ps)
    IN  [i \in 1..Len(ps) |-> quantileSorted(sel, ps[i])]

---------------------------------------------------------------------------
(* grapher: createGraph, distance, equalPoints, equalLinks, idExists       *)

\* the corners of the unit square: the coordinates the triangles are drawn from
Points == {<<0, 0>>, <<1, 0>>, <<0, 1>>, <<1, 1>>}

Triangles == {<<a, b, c>> : a \in Points, b \in Points, c \in Points}

DistanceScale == 1000

\* Math.round(Math.sqrt(d2) * scale) for the squared distances of Points
RoundedRoot == [d2 \in 0..2 |->
    CHOOSE r \in 0..(2 * DistanceScale) :
        /\ (r = 0 \/ (2 * r - 1) * (2 * r - 1) <= 4 * d2 * DistanceScale * DistanceScale)
        /\ 4 * d2 * DistanceScale * DistanceScale < (2 * r + 1) * (2 * r + 1)]

\* distance(a, b): the Euclidean distance rounded to a fixed number of
\* decimals (10 in the code, 3 here), in units of 1/DistanceScale
distance(a, b) ==
    LET dx == a[1] - b[1]
        dy == a[2] - b[2]
    IN  RoundedRoot[dx * dx + dy * dy]

equalPoints(id1, id2) == id1[1] = id2[1] /\ id1[2] = id2[2]

\* equalLinks that compares the endpoints in one orientation only
equalLinksDirected(l1, l2) ==
    equalPoints(l1.source, l2.source) /\ equalPoints(l1.target, l2.target)

equalLinks(l1, l2) ==
    \/ equalPoints(l1.source, l2.source) /\ equalPoints(l1.target, l2.target)
    \/ equalPoints(l1.source, l2.target) /\ equalPoints(l1.target, l2.source)

idExists(nodes, id) == \E i \in 1..Len(nodes) : equalPoints(nodes[i].id, id)

linkExists(links, link) == \E i \in 1..Len(links) : equalLinks(link, links[i])

makeNode(id) == [id |-> id]

makeLink(sourceId, targetId, weight) ==
    [source |-> sourceId, target |-> targetId, weight |-> weight]

\* for (let i = 0; i < 3; i++) of the node pass, from i on
RECURSIVE AddNodes(_, _, _)
AddNodes(nodes, t, i) ==
    IF i >= 3 THEN nodes
    ELSE AddNodes(IF idExists(nodes, t[i + 1]) THEN nodes
                  ELSE Append(nodes, makeNode(t[i + 1])), t, i + 1)

\* for (let i = 0; i < 3; i++) of the link pass, from i on
RECURSIVE AddLinks(_, _, _)
AddLinks(links, t, i) ==
    IF i >= 3 THEN links
    ELSE LET p1   == t[i + 1]
             p2   == t[((i + 1) % 3) + 1]
             link == makeLink(p1, p2, distance(p1, p2))
         IN  AddLinks(IF linkExists(links, link) THEN links ELSE Append(links, link),
                      t, i + 1)

\* triangles.forEach of the node pass, from triangle n on
RECURSIVE NodePass(_, _, _)
NodePass(nodes, ts, n) ==
    IF n > Len(ts) THEN nodes ELSE NodePass(AddNodes(nodes, ts[n], 0), ts, n + 1)

\* triangles.forEach of the link pass, from triangle n on
RECURSIVE LinkPass(_, _, _)
LinkPass(links, ts, n) ==
    IF n > Len(ts) THEN links ELSE LinkPass(AddLinks(links, ts[n], 0), ts, n + 1)

createGraph(ts) == [nodes |-> NodePass(<<>>, ts, 1), links |-> LinkPass(<<>>, ts, 1)]

---------------------------------------------------------------------------
(* grapher: DisjointSet, Node, mst                                         *)
(*                                                                         *)
(* DisjointSet and Node are plain functions that assign to `this`.  An     *)
(* object is a record; a call that throws yields a record with threw set.  *)
(* A node's parent_ is kept as the id of the node it points to.            *)

\* `this` in a function that module code calls without `new`: the module is
\* strict code, so it is undefined
PlainCallThis == "undefined"

\* function DisjointSet(this) { this.index_ = {}; }
DisjointSet(this) ==
    IF this = "undefined"
    THEN [threw |-> TRUE, index_ |-> <<>>]      \* TypeError: index_ of undefined
    ELSE [threw |-> FALSE, index_ |-> <<>>]

\* function Node(this, id) { this.id_ = id; this.parent_ = this; this.rank_ = 0; }
Node(this, id) ==
    IF this = "undefined"
    THEN [threw |-> TRUE, id_ |-> id, parent_ |-> id, rank_ |-> 0]  \* TypeError
    ELSE [threw |-> FALSE, id_ |-> id, parent_ |-> id, rank_ |-> 0]

\* DisjointSet.prototype.makeSet: const created = Node(id)
makeSet(forest, id) ==
    IF forest.threw \/ id \in DOMAIN forest.index_ THEN forest
    ELSE LET created == Node(PlainCallThis, id)
         IN  IF created.threw THEN [forest EXCEPT !.threw = TRUE]
             ELSE [forest EXCEPT !.index_ = (id :> created) @@ forest.index_]

\* while (current !== current.parent_) current = current.parent_;
RECURSIVE FindRoot(_, _)
FindRoot(index, current) ==
    IF index[current].parent_ = current THEN current
    ELSE FindRoot(index, index[current].parent_)

\* DisjointSet.prototype.find; no id of the model is Undefined
find(forest, id) ==
    IF id \notin DOMAIN forest.index_ THEN Undefined
    ELSE FindRoot(forest.index_, forest.index_[id].parent_)

\* DisjointSet.prototype.union.  xRoot.rank and yRoot.rank (no underscore)
\* are undefined, so the first test, undefined < undefined, is false.
union(forest, a, b) ==
    LET xRoot == find(forest, a)
        yRoot == find(forest, b)
    IN  IF a \notin DOMAIN forest.index_ \/ b \notin DOMAIN forest.index_ \/ xRoot = yRoot
        THEN forest
        ELSE IF forest.index_[yRoot].rank_ < forest.index_[xRoot].rank_
        THEN [forest EXCEPT !.index_[yRoot].parent_ = xRoot]
        ELSE [forest EXCEPT !.index_[yRoot].parent_ = xRoot,
                            !.index_[xRoot].rank_ = @ + 1]

\* DisjointSet.prototype.size: the number of keys of index_
size(forest) == Cardinality(DOMAIN forest.index_)

\* vertices.forEach(vertex => forest.makeSet(vertex.id)), from vertex n on
RECURSIVE MakeSets(_, _, _)
MakeSets(forest, nodes, n) ==
    IF n > Len(nodes) \/ forest.threw THEN forest
    ELSE MakeSets(makeSet(forest, nodes[n].id), nodes, n + 1)

\* the insertion of one element by a stable sort under the ascending
\* comparator (a, b) => a.weight - b.weight
RECURSIVE InsertByWeightAsc(_, _)
InsertByWeightAsc(sorted, e) ==
    IF sorted = <<>> THEN <<e>>
    ELSE IF sorted[Len(sorted)].weight - e.weight > 0
         THEN Append(InsertByWeightAsc(SubSeq(sorted, 1, Len(sorted) - 1), e),
                     sorted[Len(sorted)])
    ELSE Append(sorted, e)

\* the insertion of one element by a stable sort under the comparator of
\* mst, (a, b) => -(a.weight - b.weight): e moves before every element that
\* compares greater than it, and stays behind its equals
RECURSIVE InsertByWeightDesc(_, _)
InsertByWeightDesc(sorted, e) ==
    IF sorted = <<>> THEN <<e>>
    ELSE IF -(sorted[Len(sorted)].weight - e.weight) > 0
         THEN Append(InsertByWeightDesc(SubSeq(sorted, 1, Len(sorted) - 1), e),
                     sorted[Len(sorted)])
    ELSE Append(sorted, e)

\* edges.sort((a, b) => -(a.weight - b.weight)); Array.prototype.sort is
\* stable (ECMAScript 2019, and every engine for arrays this short)
RECURSIVE sortEdges(_)
sortEdges(edges) ==
    IF edges = <<>> THEN edges
    ELSE InsertByWeightDesc(sortEdges(SubSeq(edges, 1, Len(edges) - 1)), edges[Len(edges)])

\* edges.pop() until edges is empty: the links in the order they are popped
RECURSIVE popAll(_)
popAll(edges) ==
    IF edges = <<>> THEN <<>>
    ELSE <<edges[Len(edges)]>> \o popAll(SubSeq(edges, 1, Len(edges) - 1))

\* while (edges.length && forest.size() > 1) { edge = edges.pop(); ... }
RECURSIVE KruskalLoop(_, _, _)
KruskalLoop(edges, forest, selectedEdges) ==
    IF Len(edges) > 0 /\ size(forest) > 1
    THEN LET edge == edges[Len(edges)]
             rest == SubSeq(edges, 1, Len(edges) - 1)
         IN  IF find(forest, edge.source) # find(forest, edge.target)
             THEN KruskalLoop(rest, union(forest, edge.source, edge.target),
                              Append(selectedEdges, edge))
             ELSE KruskalLoop(rest, forest, selectedEdges)
    ELSE selectedEdges

\* mst(graph): forest = DisjointSet() is a call without `new`
mst(g) ==
    LET forest == MakeSets(DisjointSet(PlainCallThis), g.nodes, 1)
    IN  IF forest.threw
        THEN [outcome |-> "TypeError", nodes |-> <<>>, links |-> <<>>]
        ELSE [outcome |-> "returned", nodes |-> g.nodes,
              links |-> KruskalLoop(sortEdges(g.links), forest, <<>>)]

---------------------------------------------------------------------------
(* grapher: sortVerticies                                                  *)

\* the points hull vertices are drawn from: integer coordinates, so that the
\* centroid and the bearings are compared exactly
Sites == {<<0, 0>>, <<1, 1>>, <<10, 11>>, <<12, 13>>, <<1, 0>>, <<0, 1>>, <<12, 0>>}

RECURSIVE SumOf(_, _)
SumOf(points, c) ==
    IF points = <<>> THEN 0 ELSE points[1][c] + SumOf(Tail(points), c)

\* findCentroid: center = [x / n, y / n].  The model keeps a - center
\* multiplied by n, which has the direction of a - center.
FromCentroid(a, points) ==
    <<Len(points) * a[1] - SumOf(points, 1), Len(points) * a[2] - SumOf(points, 2)>>

\* Math.atan2(0, 0) is 0, the bearing of the direction (0, 1)
Dir(v) == IF v = <<0, 0>> THEN <<0, 1>> ELSE v

Cross(u, v) == u[1] * v[2] - u[2] * v[1]
Dot(u, v) == u[1] * v[1] + u[2] * v[2]
Abs(n) == IF n < 0 THEN 0 - n ELSE n

\* where (toDegrees(Math.atan2(dx, dy)) + 360) % 360 lies for v = (dx, dy):
\* 0 for the bearing 0, 1 inside (0, 180), 2 for 180, 3 inside (180, 360)
Half(v) ==
    IF v[1] = 0 THEN (IF v[2] >= 0 THEN 0 ELSE 2)
    ELSE IF v[1] > 0 THEN 1 ELSE 3

\* a1 < a2: atan2(dx, dy) grows from the +y axis towards the +x axis, and
\* inside a half it grows as dy / dx falls
BearingLess(u, v) ==
    \/ Half(u) < Half(v)
    \/ /\ Half(u) = Half(v)
       /\ Half(u) \in {1, 3}
       /\ u[2] * v[1] > v[2] * u[1]

\* tan(0.5 degree) = 0.00872686..., as the fraction 17 / 1948 = 0.00872690
TanHalfDegree == <<17, 1948>>

\* |a1 - a2| < 0.5, for which Math.round(a1 - a2) is 0: the directions are
\* less than half a degree apart and not on the two sides of the bearing 0
BearingsRoundEqual(u, v) ==
    /\ Dot(u, v) > 0
    /\ Abs(Cross(u, v)) * TanHalfDegree[2] < TanHalfDegree[1] * Dot(u, v)
    /\ ~(u[2] > 0 /\ v[2] > 0 /\ ((u[1] < 0) # (v[1] < 0)))

\* lines 393-398: the sign of Math.round(a1 - a2)
compareVerticies(a, b, points) ==
    LET u == Dir(FromCentroid(a, points))
        v == Dir(FromCentroid(b, points))
    IN  IF BearingsRoundEqual(u, v) THEN 0
        ELSE IF BearingLess(u, v) THEN 0 - 1
        ELSE 1

\* one insertion of the stable sort
RECURSIVE InsertByBearing(_, _, _)
InsertByBearing(sorted, e, points) ==
    IF sorted = <<>> THEN <<e>>
    ELSE IF compareVerticies(sorted[Len(sorted)], e, points) > 0
         THEN Append(InsertByBearing(SubSeq(sorted, 1, Len(sorted) - 1), e, points),
                     sorted[Len(sorted)])
    ELSE Append(sorted, e)

RECURSIVE SortByBearing(_, _)
SortByBearing(prefix, points) ==
    IF prefix = <<>> THEN prefix
    ELSE InsertByBearing(SortByBearing(SubSeq(prefix, 1, Len(prefix) - 1), points),
                         prefix[Len(prefix)], points)

\* lines 390-400
sortVerticies(points) == SortByBearing(points, points)

\* Array.prototype.sort leaves the order to the engine when the comparator
\* is not consistent: here, when "compares as 0" is not transitive
ConsistentComparator(points) ==
    \A i, j, l \in 1..Len(points) :
        (compareVerticies(points[i], points[j], points) = 0
         /\ compareVerticies(points[j], points[l], points) = 0)
            => compareVerticies(points[i], points[l], points) = 0

\* isA2DLine(sites) of convexHull and concaveHull: all sites on one line
Collinear(points) ==
    \A i \in 1..Len(points) :
        Cross(<<points[2][1] - points[1][1], points[2][2] - points[1][2]>>,
              <<points[i][1] - points[1][1], points[i][2] - points[1][2]>>) = 0

\* what convexHull and concaveHull pass to sortVerticies: distinct sites,
\* not all on one line
VertexLists ==
    {s \in UNION {[1..n -> Sites] : n \in 3..MaxHull} :
        /\ \A i, j \in 1..Len(s) : i # j => s[i] # s[j]
        /\ ~Collinear(s)
        /\ ConsistentComparator(s)}

---------------------------------------------------------------------------
(* grapher: delaunayFromPoints on collinear sites                          *)

GridPoints == (0..MaxCoord) \X (0..MaxCoord)

\* the lists for which isA2DLine(sites) holds: distinct sites on one line
CollinearSites ==
    {s \in UNION {[1..n -> GridPoints] : n \in 1..MaxSites} :
        /\ \A i, j \in 1..Len(s) : i # j => s[i] # s[j]
        /\ (Len(s) < 3 \/ Collinear(s))}

\* line 248: (a, b) => (a[0] > b[0] ? a[0] - b[0] : a[1] - b[1])
compareSites(a, b) == IF a[1] > b[1] THEN a[1] - b[1] ELSE a[2] - b[2]

\* a consistent comparator in the sense of Array.prototype.sort: a before b
\* exactly when b after a, and both "before" and "equal" are transitive
ConsistentSiteComparator(s) ==
    /\ \A i, j \in 1..Len(s) : (compareSites(s[i], s[j]) < 0) <=> (compareSites(s[j], s[i]) > 0)
    /\ \A i, j, l \in 1..Len(s) :
           /\ (compareSites(s[i], s[j]) < 0 /\ compareSites(s[j], s[l]) < 0)
                  => compareSites(s[i], s[l]) < 0
           /\ (compareSites(s[i], s[j]) = 0 /\ compareSites(s[j], s[l]) = 0)
                  => compareSites(s[i], s[l]) = 0

RECURSIVE InsertSite(_, _)
InsertSite(sorted, e) ==
    IF sorted = <<>> THEN <<e>>
    ELSE IF compareSites(sorted[Len(sorted)], e) > 0
         THEN Append(InsertSite(SubSeq(sorted, 1, Len(sorted) - 1), e), sorted[Len(sorted)])
    ELSE Append(sorted, e)

RECURSIVE StableSortSites(_)
StableSortSites(s) ==
    IF s = <<>> THEN s
    ELSE InsertSite(StableSortSites(SubSeq(s, 1, Len(s) - 1)), s[Len(s)])

\* copiedSites.sort(...): the stable sort when the comparator is consistent
\* on the sites; otherwise the order is left to the engine, and every
\* arrangement of the sites is a possible outcome
sortSites(s) ==
    IF ConsistentSiteComparator(s) THEN {StableSortSites(s)}
    ELSE {t \in [1..Len(s) -> {s[i] : i \in 1..Len(s)}] :
              \A i \in 1..Len(s) : \E j \in 1..Len(s) : t[j] = s[i]}

\* lines 253-266: the body of the for loop for one i, then the next i
RECURSIVE Fan(_, _)
Fan(i, siteLength) ==
    IF ~(i < siteLength) THEN <<>>
    ELSE (IF i + 1 < siteLength THEN <<i, i + 1>> ELSE <<>>)
         \o (IF i + 2 < siteLength THEN <<i + 2>>
             ELSE IF siteLength % 2 = 0 THEN <<i - 1>>
             ELSE <<>>)
         \o Fan(i + 2, siteLength)

\* lines 245-269: the collinear branch, for a sorted copy of the sites
delaunayFromPoints(copiedSites) ==
    [triangles |-> Fan(0, Len(copiedSites)), points |-> copiedSites]

---------------------------------------------------------------------------
(* grapher: concaveHull1                                                   *)

\* sites: the corners of the unit square, at the indices 0..3
CellSites == <<<<0, 0>>, <<1, 0>>, <<0, 1>>, <<1, 1>>>>

\* Delaunay.from(sites).triangles.  d3-delaunay is not part of the sources:
\* the array is any flat list of one to MaxTriangles triangles, each a
\* triple of pairwise distinct site indices, no triangle listed twice.
IndexTriples ==
    {t \in [1..3 -> 0..(Len(CellSites) - 1)] : t[1] # t[2] /\ t[2] # t[3] /\ t[1] # t[3]}

RECURSIVE Flatten(_)
Flatten(ts) == IF ts = <<>> THEN <<>> ELSE Head(ts) \o Flatten(Tail(ts))

TriangleArrays ==
    {Flatten(ts) : ts \in {us \in UNION {[1..n -> IndexTriples] : n \in 1..MaxTriangles} :
                               \A m, n \in 1..Len(us) :
                                   m # n => {us[m][c] : c \in 1..3} # {us[n][c] : c \in 1..3}}}

\* 10e-3, in 1/DistanceScale
LongEdgeStep == DistanceScale \div 100

\* the longEdge arguments of the model: below, between and above the two
\* edge lengths of the unit square
LongEdges == {DistanceScale \div 2, DistanceScale + LongEdgeStep, 2 * DistanceScale}

\* lines 435-443: one pass over the triangle edges, from edge number e on
\* (e = i + j); the edges shorter than le are pushed
RECURSIVE PassingCells(_, _, _)
PassingCells(tri, le, e) ==
    IF e >= Len(tri) THEN <<>>
    ELSE LET i == 3 * (e \div 3)
             j == e % 3
             a == At(tri, i + j)
             b == At(tri, i + ((j + 1) % 3))
         IN  (IF distance(At(CellSites, a), At(CellSites, b)) < le THEN <<<<a, b>>>> ELSE <<>>)
             \o PassingCells(tri, le, e + 1)

\* lines 432-444: while (cells.length <= 0), with longEdge raised first
RECURSIVE RelaxLoop(_, _)
RelaxLoop(tri, le) ==
    LET passing == PassingCells(tri, le + LongEdgeStep, 0)
    IN  IF passing # <<>> THEN passing ELSE RelaxLoop(tri, le + LongEdgeStep)

\* lines 427-444: the cells that pass the length threshold
thresholdCells(tri, le) == RelaxLoop(tri, le - LongEdgeStep)

\* edge.sort(): the two indices in order (in place; one digit each)
SortedEdge(edge) == IF edge[2] < edge[1] THEN <<edge[2], edge[1]>> ELSE edge

\* line 450: edgeCount[theKey] ? edgeCount[theKey] : 0 + 1.  An absent key
\* reads undefined, which is falsy.
CountEdge(edgeCount, theKey) ==
    LET old == IF theKey \in DOMAIN edgeCount THEN edgeCount[theKey] ELSE 0
    IN  (theKey :> (IF old # 0 THEN old ELSE 0 + 1)) @@ edgeCount

\* lines 446-451: cells.forEach, from cell n on
RECURSIVE CountEdges(_, _, _)
CountEdges(cs, n, edgeCount) ==
    IF n > Len(cs) THEN edgeCount
    ELSE CountEdges(cs, n + 1, CountEdge(edgeCount, SortedEdge(cs[n])))

\* lines 453-457: cells.filter
RECURSIVE FilterOnce(_, _)
FilterOnce(cs, edgeCount) ==
    IF cs = <<>> THEN <<>>
    ELSE (IF edgeCount[SortedEdge(Head(cs))] = 1 THEN <<SortedEdge(Head(cs))>> ELSE <<>>)
         \o FilterOnce(Tail(cs), edgeCount)

\* lines 423-460
concaveHull1(tri, le) ==
    LET passed == thresholdCells(tri, le)
    IN  FilterOnce(passed, CountEdges(passed, 1, <<>>))

---------------------------------------------------------------------------
(* grapher: putCellToHulls and processCells                                *)

\* the cells of the model: pairs of two different vertex indices
CellPairs == {c \in (0..MaxVertex) \X (0..MaxVertex) : c[1] # c[2]}

CellLists == UNION {[1..n -> CellPairs] : n \in 0..MaxCells}

\* putCellToHulls with the first test only: a cell joins a hull through
\* cell[0] and never through cell[1]
RECURSIVE PutCellByFirstEnd(_, _, _)
PutCellByFirstEnd(cell, hs, i) ==
    IF i > Len(hs) THEN [put |-> FALSE, hulls |-> hs]
    ELSE IF cell[1] \in hs[i] THEN [put |-> TRUE, hulls |-> [hs EXCEPT ![i] = @ \cup {cell[2]}]]
    ELSE PutCellByFirstEnd(cell, hs, i + 1)

putCellByFirstEnd(cell, hs) == PutCellByFirstEnd(cell, hs, 1)

\* lines 347-360: the for loop of putCellToHulls, from hull i on
RECURSIVE PutCell(_, _, _)
PutCell(cell, hs, i) ==
    IF i > Len(hs) THEN [put |-> FALSE, hulls |-> hs]
    ELSE IF cell[1] \in hs[i] THEN [put |-> TRUE, hulls |-> [hs EXCEPT ![i] = @ \cup {cell[2]}]]
    ELSE IF cell[2] \in hs[i] THEN [put |-> TRUE, hulls |-> [hs EXCEPT ![i] = @ \cup {cell[1]}]]
    ELSE PutCell(cell, hs, i + 1)

\* putCellToHulls: the value returned (put) and the hulls afterwards
putCellToHulls(cell, hs) == PutCell(cell, hs, 1)

\* lines 370-374: cells.forEach, from cell n on
RECURSIVE EachCell(_, _, _, _)
EachCell(cs, n, hs, processedIndice) ==
    IF n > Len(cs) THEN [hulls |-> hs, processedIndice |-> processedIndice]
    ELSE LET r == putCellToHulls(cs[n], hs)
         IN  EachCell(cs, n + 1, r.hulls,
                      IF r.put THEN processedIndice \cup {n} ELSE processedIndice)

\* line 384: cells.filter((v, i) => processedIndice.indexOf(i) < 0)
RECURSIVE Unprocessed(_, _, _)
Unprocessed(cs, n, processedIndice) ==
    IF n > Len(cs) THEN <<>>
    ELSE (IF n \in processedIndice THEN <<>> ELSE <<cs[n]>>)
         \o Unprocessed(cs, n + 1, processedIndice)

\* lines 368-385: the body of one call of processCells on a non-empty
\* list, up to its recursive call
processCellsBody(cs, hs) ==
    LET r == EachCell(cs, 1, hs, {})
    IN  IF r.processedIndice = {}
        THEN [cells |-> Tail(cs), hulls |-> Append(r.hulls, {cs[1][1], cs[1][2]})]
        ELSE [cells |-> Unprocessed(cs, 1, r.processedIndice), hulls |-> r.hulls]

---------------------------------------------------------------------------
(* scagScorer: the options, the binning section, the Outlying and Convex   *)
(* stages                                                                  *)

StartBinGridSizeDefault == 40
MinNumOfBinsDefault == 50
MaxNumOfBinsDefault == 500
BinSizeStep == 5

\* !v of JavaScript for a number that may be undefined
Falsy(v) == v = Undefined \/ v = 0

\* the option records of the model
OptionRecords ==
    [binType : {"undefined", "hexagon"},
     startBinGridSize : {Undefined, 10},
     isBinned : {FALSE, TRUE},
     outlyingUpperBound : {Undefined},
     minBins : {Undefined, 2, 3},
     maxBins : {Undefined, 2, 4}]

\* uniqueKeys.length: the numbers of distinct normalized points of the model
DistinctCounts == {1, 3, 5, MinNumOfBinsDefault, MinNumOfBinsDefault + 10}

Min(a, b) == IF a < b THEN a ELSE b
Max(a, b) == IF a < b THEN b ELSE a

\* binner.hexbin(normalizedPoints).length.  The Binner is not part of the
\* sources: the count is any number of bins from 1 to the number of
\* distinct points, drawn among the values next to the two limits.
HexbinCounts(distinct, lo, hi) ==
    {1, lo - 1, lo, hi, hi + 1, distinct} \cap (1..distinct)

\* lines 47-53: the locals read from options
ReadOptions ==
    /\ pc = "start"
    /\ pc' = "binning"
    /\ startBinGridSize' = options.startBinGridSize
    /\ outlyingUpperBound' = options.outlyingUpperBound
    /\ UNCHANGED <<options, uniqueKeys, minNumOfBins, maxNumOfBins, binSize, bins, passes,
                   outlying, thisInstance, convexBound>>

\* line 72, else branch at line 132: the input is binned already
SkipBinning ==
    /\ pc = "binning"
    /\ options.isBinned
    /\ pc' = "binned"
    /\ UNCHANGED <<options, binVars, boundVars>>

\* lines 74-99: the defaults, and one bin per distinct point when there are
\* fewer distinct points than minNumOfBins
StartBinning ==
    /\ pc = "binning"
    /\ ~options.isBinned
    /\ LET start == IF Falsy(startBinGridSize) THEN StartBinGridSizeDefault
                    ELSE startBinGridSize
           lo    == IF Falsy(options.minBins) THEN MinNumOfBinsDefault ELSE options.minBins
           hi    == IF Falsy(options.maxBins) THEN MaxNumOfBinsDefault ELSE options.maxBins
       IN  /\ startBinGridSize' = start
           /\ minNumOfBins' = lo
           /\ maxNumOfBins' = hi
           /\ IF uniqueKeys < lo
              THEN bins' = uniqueKeys /\ pc' = "binned"
              ELSE bins' = 0 /\ pc' = "loop"
    /\ UNCHANGED <<options, uniqueKeys, binSize, passes, boundVars>>

\* binSize / 2 and binSize + 5.  binSize is kept in units of 1/BinSizeUnit,
\* to that resolution and up to MaxBinSize; the exit test of the loop does
\* not read it.
Halved(sz) == Max(sz \div 2, 1)
Stepped(sz) == Min(sz + BinSizeStep * BinSizeUnit, MaxBinSize * BinSizeUnit)

\* lines 100-123: one pass of the do-while body and its exit test
LoopBody ==
    /\ pc = "loop"
    /\ binSize' = IF binSize = Undefined THEN startBinGridSize * BinSizeUnit
                  ELSE IF bins > maxNumOfBins THEN Halved(binSize)
                  ELSE IF bins < minNumOfBins THEN Stepped(binSize)
                  ELSE binSize
    /\ IF options.binType = "hexagon"
       THEN bins' \in HexbinCounts(uniqueKeys, minNumOfBins, maxNumOfBins)
       ELSE bins' = bins
    /\ pc' = IF bins' > maxNumOfBins \/ bins' < minNumOfBins THEN "loop" ELSE "binned"
    /\ passes' = (passes + 1) % PassModulus
    /\ UNCHANGED <<options, uniqueKeys, startBinGridSize, minNumOfBins, maxNumOfBins,
                   boundVars>>

\* lines 157-168: the Outlying stage
RunOutlying ==
    /\ pc = "outlying"
    /\ pc' = "convex"
    /\ outlyingUpperBound' = outlying.upperBound
    /\ thisInstance' = [thisInstance EXCEPT !.outlyingUpperBound = outlying.upperBound]
    /\ UNCHANGED <<options, binVars, outlying, convexBound>>

\* lines 192-195: new Convex(noOutlyingTree, outlyingUpperBound)
RunConvex ==
    /\ pc = "convex"
    /\ pc' = "scored"
    /\ convexBound' = outlyingUpperBound
    /\ UNCHANGED <<options, binVars, outlyingUpperBound, outlying, thisInstance>>

---------------------------------------------------------------------------
(* The specifications of util.ts: each run draws the arguments of one call *)
(* and applies the function to them.                                       *)

IsSorted(xs) == \A i \in 1..(Len(xs) - 1) : xs[i] <= xs[i + 1]

PLists == SeqsUpTo(Quantiles, MaxP) \ {<<>>}

NoSelectArgs == k = 0 /\ left = 0 /\ right = 0

NoGraph == [nodes |-> <<>>, links |-> <<>>]

NoTree == [outcome |-> "none", nodes |-> <<>>, links |-> <<>>]

HullIdle == vertices = <<>> /\ hull = <<>>

\* the object `this.index_ = {}` leaves behind
EmptyForest == [threw |-> FALSE, index_ |-> <<>>]

ForestIdle == disjointSet = EmptyForest /\ made = {} /\ unions = {}

NoDelaunay == [triangles |-> <<>>, points |-> <<>>]

DelaunayIdle == sites = <<>> /\ delaunay = NoDelaunay

CellIdle ==
    /\ cellTriangles = <<>> /\ longEdge = 0 /\ cellsIn = <<>> /\ cells = <<>> /\ hulls = <<>>

GraphIdle ==
    /\ triangles = <<>> /\ graph = NoGraph /\ mstree = NoTree /\ popped = <<>>
    /\ HullIdle /\ ForestIdle /\ DelaunayIdle /\ CellIdle

NoOptions == [binType |-> "undefined", startBinGridSize |-> Undefined, isBinned |-> FALSE,
              outlyingUpperBound |-> Undefined, minBins |-> Undefined, maxBins |-> Undefined]

BinIdle ==
    /\ uniqueKeys = 0 /\ startBinGridSize = Undefined /\ minNumOfBins = 0
    /\ maxNumOfBins = 0 /\ binSize = Undefined /\ bins = 0 /\ passes = 0

BoundIdle ==
    /\ outlyingUpperBound = Undefined /\ outlying = [upperBound |-> Undefined]
    /\ thisInstance = [outlyingUpperBound |-> Undefined] /\ convexBound = Undefined

ScorerIdle == pc = "idle" /\ options = NoOptions /\ BinIdle /\ BoundIdle

InitQuantileSorted ==
    /\ call = "none"
    /\ x \in {a \in Arrays : IsSorted(a)}
    /\ p \in {<<q>> : q \in Quantiles}
    /\ NoSelectArgs
    /\ copy = <<>>
    /\ results = <<>>
    /\ GraphIdle
    /\ ScorerIdle

CallQuantileSorted ==
    /\ call = "none"
    /\ call' = "quantileSorted"
    /\ results' = <<quantileSorted(x, p[1])>>
    /\ UNCHANGED <<x, p, k, left, right, copy, graphVars, scorerVars>>

SpecSorted == InitQuantileSorted /\ [][CallQuantileSorted]_vars

InitQuickselect ==
    /\ call = "none"
    /\ x \in Arrays
    /\ right \in 0..(Len(x) - 1)
    /\ k \in 0..right
    /\ left \in 0..k
    /\ p = <<>>
    /\ copy = <<>>
    /\ results = <<>>
    /\ GraphIdle
    /\ ScorerIdle

CallQuickselect ==
    /\ call = "none"
    /\ call' = "quickselect"
    /\ copy' = quickselect(x, k, left, right)
    /\ UNCHANGED <<x, p, k, left, right, results, graphVars, scorerVars>>

SpecSelect == InitQuickselect /\ [][CallQuickselect]_vars

InitQuantile ==
    /\ call = "none"
    /\ x \in Arrays
    /\ p \in PLists
    /\ NoSelectArgs
    /\ copy = <<>>
    /\ results = <<>>
    /\ GraphIdle
    /\ ScorerIdle

\* quantile(x, p) with a single p, for each requested p in turn
CallQuantile ==
    /\ call = "none"
    /\ call' = "quantile"
    /\ results' = [i \in 1..Len(p) |-> quantile(x, p[i])]
    /\ UNCHANGED <<x, p, k, left, right, copy, graphVars, scorerVars>>

\* quantileArray(x, p) with the array p
CallQuantileArray ==
    /\ call = "none"
    /\ call' = "quantileArray"
    /\ copy' = multiQuantileSelect(x, p)
    /\ results' = quantileArray(x, p)
    /\ UNCHANGED <<x, p, k, left, right, graphVars, scorerVars>>

NextQuantile == CallQuantile \/ CallQuantileArray

SpecQuantile == InitQuantile /\ [][NextQuantile]_vars

---------------------------------------------------------------------------
(* The specification of grapher: a run draws a triangle list, builds the   *)
(* graph and then calls mst on it, or sorts and pops its links as mst does.*)

UtilIdle == x = <<>> /\ p = <<>> /\ NoSelectArgs /\ copy = <<>> /\ results = <<>>

InitGraph ==
    /\ call = "none"
    /\ triangles \in SeqsUpTo(Triangles, MaxTriangles)
    /\ graph = NoGraph
    /\ mstree = NoTree
    /\ popped = <<>>
    /\ HullIdle /\ ForestIdle /\ DelaunayIdle /\ CellIdle
    /\ UtilIdle
    /\ ScorerIdle

CallCreateGraph ==
    /\ call = "none"
    /\ call' = "createGraph"
    /\ graph' = createGraph(triangles)
    /\ UNCHANGED <<triangles, mstree, popped, hullVars, forestVars, delaunayVars, cellVars, utilVars,
                   scorerVars>>

CallMst ==
    /\ call = "createGraph"
    /\ call' = "mst"
    /\ mstree' = mst(graph)
    /\ UNCHANGED <<triangles, graph, popped, hullVars, forestVars, delaunayVars, cellVars, utilVars,
                   scorerVars>>

\* lines 223-234 of mst on their own: the sort, then the pops of the loop
SortAndPop ==
    /\ call = "createGraph"
    /\ call' = "sortAndPop"
    /\ popped' = popAll(sortEdges(graph.links))
    /\ UNCHANGED <<triangles, graph, mstree, hullVars, forestVars, delaunayVars, cellVars, utilVars,
                   scorerVars>>

NextGraph == CallCreateGraph \/ CallMst \/ SortAndPop

SpecGraph == InitGraph /\ [][NextGraph]_vars

---------------------------------------------------------------------------
(* The specification of sortVerticies.                                     *)

InitHull ==
    /\ call = "none"
    /\ vertices \in VertexLists
    /\ hull = <<>>
    /\ triangles = <<>> /\ graph = NoGraph /\ mstree = NoTree /\ popped = <<>>
    /\ ForestIdle /\ DelaunayIdle /\ CellIdle
    /\ UtilIdle
    /\ ScorerIdle

CallSortVerticies ==
    /\ call = "none"
    /\ call' = "sortVerticies"
    /\ hull' = sortVerticies(vertices)
    /\ UNCHANGED <<vertices, triangles, graph, mstree, popped, forestVars, delaunayVars, cellVars,
                   utilVars, scorerVars>>

SpecHull == InitHull /\ [][CallSortVerticies]_vars

---------------------------------------------------------------------------
(* The specification of DisjointSet: makeSet and union calls, in any       *)
(* order, on one DisjointSet object.                                       *)

InitForest ==
    /\ call = "none"
    /\ ForestIdle
    /\ triangles = <<>> /\ graph = NoGraph /\ mstree = NoTree /\ popped = <<>>
    /\ HullIdle /\ DelaunayIdle /\ CellIdle
    /\ UtilIdle
    /\ ScorerIdle

\* forest.makeSet(id)
CallMakeSet ==
    \E id \in Points :
        /\ disjointSet' = makeSet(disjointSet, id)
        /\ made' = made \cup {id}
        /\ call' = "makeSet"
        /\ UNCHANGED <<unions, triangles, graph, mstree, popped, hullVars, delaunayVars, cellVars,
                       utilVars, scorerVars>>

\* forest.union(a, b)
CallUnion ==
    \E a \in Points, b \in Points :
        /\ disjointSet' = union(disjointSet, a, b)
        /\ unions' = IF a \in made /\ b \in made THEN unions \cup {{a, b}} ELSE unions
        /\ call' = "union"
        /\ UNCHANGED <<made, triangles, graph, mstree, popped, hullVars, delaunayVars, cellVars,
                       utilVars, scorerVars>>

NextForest == CallMakeSet \/ CallUnion

SpecForest == InitForest /\ [][NextForest]_vars

---------------------------------------------------------------------------
(* The specification of delaunayFromPoints on collinear sites.             *)

InitDelaunay ==
    /\ call = "none"
    /\ sites \in CollinearSites
    /\ delaunay = NoDelaunay
    /\ triangles = <<>> /\ graph = NoGraph /\ mstree = NoTree /\ popped = <<>>
    /\ HullIdle /\ ForestIdle /\ CellIdle
    /\ UtilIdle
    /\ ScorerIdle

CallDelaunayFromPoints ==
    /\ call = "none"
    /\ call' = "delaunayFromPoints"
    /\ \E copiedSites \in sortSites(sites) : delaunay' = delaunayFromPoints(copiedSites)
    /\ UNCHANGED <<sites, triangles, graph, mstree, popped, hullVars, forestVars, cellVars, utilVars,
                   scorerVars>>

SpecDelaunay == InitDelaunay /\ [][CallDelaunayFromPoints]_vars

---------------------------------------------------------------------------
(* The specification of concaveHull1.                                      *)

InitConcave ==
    /\ call = "none"
    /\ cellTriangles \in TriangleArrays
    /\ longEdge \in LongEdges
    /\ cellsIn = <<>> /\ cells = <<>> /\ hulls = <<>>
    /\ triangles = <<>> /\ graph = NoGraph /\ mstree = NoTree /\ popped = <<>>
    /\ HullIdle /\ ForestIdle /\ DelaunayIdle
    /\ UtilIdle
    /\ ScorerIdle

CallConcaveHull1 ==
    /\ call = "none"
    /\ call' = "concaveHull1"
    /\ cells' = concaveHull1(cellTriangles, longEdge)
    /\ UNCHANGED <<cellTriangles, longEdge, cellsIn, hulls, triangles, graph, mstree, popped,
                   hullVars, forestVars, delaunayVars, utilVars, scorerVars>>

SpecConcave == InitConcave /\ [][CallConcaveHull1]_vars

---------------------------------------------------------------------------
(* The specification of processCells(cells, hulls) as concaveHull calls   *)
(* it, with hulls = [].  Each call of processCells is one step.            *)

InitCells ==
    /\ call = "none"
    /\ cellsIn \in CellLists
    /\ cells = cellsIn
    /\ hulls = <<>>
    /\ cellTriangles = <<>> /\ longEdge = 0
    /\ triangles = <<>> /\ graph = NoGraph /\ mstree = NoTree /\ popped = <<>>
    /\ HullIdle /\ ForestIdle /\ DelaunayIdle
    /\ UtilIdle
    /\ ScorerIdle

\* lines 368-387: a call with cells left; its last statement is the next call
ProcessCells ==
    /\ call \in {"none", "processCells"}
    /\ cells # <<>>
    /\ call' = "processCells"
    /\ cells' = processCellsBody(cells, hulls).cells
    /\ hulls' = processCellsBody(cells, hulls).hulls
    /\ UNCHANGED <<cellsIn, cellTriangles, longEdge, triangles, graph, mstree, popped,
                   hullVars, forestVars, delaunayVars, utilVars, scorerVars>>

\* lines 364-366: a call with no cell left returns, and so do its callers
ProcessCellsReturn ==
    /\ call \in {"none", "processCells"}
    /\ cells = <<>>
    /\ call' = "processCells returned"
    /\ UNCHANGED <<cellVars, triangles, graph, mstree, popped,
                   hullVars, forestVars, delaunayVars, utilVars, scorerVars>>

NextCells == ProcessCells \/ ProcessCellsReturn

SpecCells == InitCells /\ [][NextCells]_vars

\* processCells is synchronous code: a call that can run does run
FairSpecCells == SpecCells /\ WF_vars(NextCells)

---------------------------------------------------------------------------
(* The specifications of scagScorer.                                       *)

CallsIdle == call = "none" /\ UtilIdle /\ GraphIdle

\* the binning section, from the call to the end of the binning
InitBinning ==
    /\ pc = "start"
    /\ options \in OptionRecords
    /\ uniqueKeys \in DistinctCounts
    /\ startBinGridSize = Undefined /\ minNumOfBins = 0 /\ maxNumOfBins = 0
    /\ binSize = Undefined /\ bins = 0 /\ passes = 0
    /\ BoundIdle
    /\ CallsIdle

NextBinning ==
    /\ (ReadOptions \/ SkipBinning \/ StartBinning \/ LoopBody)
    /\ UNCHANGED <<call, utilVars, graphVars>>

\* scagScorer is synchronous code: while a statement is left to run, it runs
SpecBinning == InitBinning /\ [][NextBinning]_vars /\ WF_vars(NextBinning)

\* the Outlying and Convex stages, from line 157 on: the local still holds
\* the option (no line from 52 to 156 assigns it), and the Outlying object
\* holds the bound it derives from the tree
InitBound ==
    /\ pc = "outlying"
    /\ options \in {[NoOptions EXCEPT !.outlyingUpperBound = b] :
                         b \in {Undefined} \cup (1..MaxBound)}
    /\ outlyingUpperBound = options.outlyingUpperBound
    /\ outlying \in [upperBound : 1..MaxBound]
    /\ thisInstance = [outlyingUpperBound |-> Undefined]
    /\ convexBound = Undefined
    /\ BinIdle
    /\ CallsIdle

NextBound ==
    /\ (RunOutlying \/ RunConvex)
    /\ UNCHANGED <<call, utilVars, graphVars>>

SpecBound == InitBound /\ [][NextBound]_vars

---------------------------------------------------------------------------
(* C3 -- quantileSorted on a sorted array of length n >= 1 and p in [0,1]. *)

\* the least integer c with c >= n * p
CeilOf(n, q) == CHOOSE c \in 0..n : c * q[2] >= n * q[1] /\ (c = 0 \/ (c - 1) * q[2] < n * q[1])

\* sorted[i] of the claim (0-based), doubled
Elem2(xs, i) == 2 * xs[i + 1]

\* C3 as stated: p = 0 gives the first element, p = 1 the last; otherwise,
\* with idx = n*p, the average of sorted[idx-1] and sorted[idx] when idx is
\* an integer and n is even, and sorted[ceil(idx)-1] in every other case,
\* an integer idx with odd n included.
QuantileSortedAsClaimed ==
    call = "quantileSorted" =>
        LET n == Len(x)
            q == p[1]
            c == CeilOf(n, q)
        IN  results[1] =
              IF q = <<0, 1>> THEN Elem2(x, 0)
              ELSE IF q = <<1, 1>> THEN Elem2(x, n - 1)
              ELSE IF c * q[2] = n * q[1] /\ n % 2 = 0
                   THEN (Elem2(x, c - 1) + Elem2(x, c)) \div 2
              ELSE Elem2(x, c - 1)

\* C3 amended: as claimed, except that an integer idx with odd n gives
\* sorted[idx], the element one place after sorted[ceil(idx)-1].
QuantileSortedAmended ==
    call = "quantileSorted" =>
        LET n == Len(x)
            q == p[1]
            c == CeilOf(n, q)
        IN  results[1] =
              IF q = <<0, 1>> THEN Elem2(x, 0)
              ELSE IF q = <<1, 1>> THEN Elem2(x, n - 1)
              ELSE IF c * q[2] = n * q[1] /\ n % 2 = 0
                   THEN (Elem2(x, c - 1) + Elem2(x, c)) \div 2
              ELSE IF c * q[2] = n * q[1] THEN Elem2(x, c)
              ELSE Elem2(x, c - 1)

\* an integer idx with odd n where sorted[idx-1] and sorted[idx] differ
QuantileSortedOddWhole ==
    /\ call = "quantileSorted"
    /\ Len(x) % 2 = 1
    /\ p[1] \notin {<<0, 1>>, <<1, 1>>}
    /\ IsWhole(Len(x), p[1])
    /\ x[(Len(x) * p[1][1]) \div p[1][2]] # x[(Len(x) * p[1][1]) \div p[1][2] + 1]
    /\ results[1] = 2 * x[(Len(x) * p[1][1]) \div p[1][2] + 1]

---------------------------------------------------------------------------
(* C5 -- quickselect(arr, k, left, right) with left <= k <= right.         *)

RECURSIVE Slice(_, _, _)
Slice(xs, a, b) == IF a > b THEN <<>> ELSE <<At(xs, a)>> \o Slice(xs, a + 1, b)

\* C5: arr[k] holds the (k - left + 1)-th smallest value of the original
\* arr[left..right], arr[left..k] <= arr[k] <= arr[k..right], and arr is a
\* permutation of its original contents.
QuickselectPlacesKth ==
    call = "quickselect" =>
        /\ SortAsc(copy) = SortAsc(x)
        /\ At(copy, k) = At(SortAsc(Slice(x, left, right)), k - left)
        /\ \A i \in left..k : At(copy, i) <= At(copy, k)
        /\ \A i \in k..right : At(copy, i) >= At(copy, k)

---------------------------------------------------------------------------
(* C4 -- quantileArray against quantile and the fully sorted array.        *)

\* C4: quantileArray(x, p)[i] is quantile(x, p[i]), which is quantileSorted
\* of the fully sorted x at p[i], for every position i of p.
QuantileArrayMatchesQuantile ==
    call = "quantileArray" =>
        \A i \in 1..Len(p) :
            /\ results[i] = quantile(x, p[i])
            /\ results[i] = quantileSorted(SortAsc(x), p[i])

---------------------------------------------------------------------------
(* C6 -- the graph createGraph returns.                                    *)

NoDuplicateNodes(g) ==
    \A i, j \in 1..Len(g.nodes) :
        i # j => ~(g.nodes[i].id[1] = g.nodes[j].id[1] /\ g.nodes[i].id[2] = g.nodes[j].id[2])

SameEnds(l1, l2) == {l1.source, l1.target} = {l2.source, l2.target}

NoDuplicateLinks(g) ==
    \A i, j \in 1..Len(g.links) : i # j => ~SameEnds(g.links[i], g.links[j])

NoSelfLoops(g) == \A i \in 1..Len(g.links) : g.links[i].source # g.links[i].target

DistinctCorners(t) == t[1] # t[2] /\ t[2] # t[3] /\ t[1] # t[3]

\* C6 as stated: for every list of triangles the graph has no two nodes
\* with equal coordinates, no two links joining the same unordered pair of
\* endpoints, and no link whose source equals its target.
CreateGraphIsSimple ==
    call = "createGraph" =>
        NoDuplicateNodes(graph) /\ NoDuplicateLinks(graph) /\ NoSelfLoops(graph)

\* C6 amended: no duplicate nodes and no duplicate links for every list of
\* triangles; no self-loop when the three corners of every triangle are
\* pairwise distinct points.
CreateGraphIsSimpleAmended ==
    call = "createGraph" =>
        /\ NoDuplicateNodes(graph)
        /\ NoDuplicateLinks(graph)
        /\ (\A n \in 1..Len(triangles) : DistinctCorners(triangles[n])) => NoSelfLoops(graph)

\* two proper triangles that share an edge in opposite orientations: the
\* second pass over the shared corners and the shared edge adds nothing
CreateGraphSharedEdge ==
    /\ call = "createGraph"
    /\ Len(triangles) = 2
    /\ \A n \in 1..2 : DistinctCorners(triangles[n])
    /\ triangles[1][1] = triangles[2][2] /\ triangles[1][2] = triangles[2][1]
    /\ triangles[1][3] # triangles[2][3]
    /\ Len(graph.nodes) = 4
    /\ Len(graph.links) = 5

---------------------------------------------------------------------------
(* C1, C2 -- mst on a graph whose links connect all of its nodes.          *)

NodeIds(g) == {g.nodes[i].id : i \in 1..Len(g.nodes)}

\* the ids reachable from the ids of S along the links of the sequence ls
RECURSIVE ReachFrom(_, _)
ReachFrom(S, ls) ==
    LET step == S \cup {ls[i].target : i \in {j \in 1..Len(ls) : ls[j].source \in S}}
                  \cup {ls[i].source : i \in {j \in 1..Len(ls) : ls[j].target \in S}}
    IN  IF step = S THEN S ELSE ReachFrom(step, ls)

\* every node is reachable from every other node along ls
Connects(ids, ls) == \A a \in ids : ids \subseteq ReachFrom({a}, ls)

ConnectedGraph(g) == Len(g.nodes) >= 1 /\ Connects(NodeIds(g), g.links)

\* n - 1 links that connect the n nodes: a tree (connected with n - 1 links
\* leaves no room for a cycle)
SpanningTree(ids, ls) ==
    /\ Len(ls) = Cardinality(ids) - 1
    /\ Connects(ids, ls)
    /\ \A i, j \in 1..Len(ls) : i # j => ls[i] # ls[j]

RECURSIVE TotalWeight(_)
TotalWeight(ls) == IF ls = <<>> THEN 0 ELSE Head(ls).weight + TotalWeight(Tail(ls))

RECURSIVE Pick(_, _)
Pick(ls, I) ==
    IF ls = <<>> THEN <<>>
    ELSE (IF Len(ls) \in I THEN Pick(SubSeq(ls, 1, Len(ls) - 1), I) \o <<ls[Len(ls)]>>
          ELSE Pick(SubSeq(ls, 1, Len(ls) - 1), I))

\* the spanning trees of g, each a subsequence of g.links
SpanningTrees(g) ==
    {Pick(g.links, I) : I \in {J \in SUBSET (1..Len(g.links)) :
                                   SpanningTree(NodeIds(g), Pick(g.links, J))}}

\* C1: for every graph whose links connect all of its nodes, mst(graph)
\* returns a spanning tree of graph.nodes: |nodes| - 1 links, all of them
\* links of the graph, acyclic, joining every node to every other node.
MstReturnsSpanningTree ==
    (call = "mst" /\ ConnectedGraph(graph)) =>
        /\ mstree.outcome = "returned"
        /\ mstree.nodes = graph.nodes
        /\ SpanningTree(NodeIds(graph), mstree.links)
        /\ \A i \in 1..Len(mstree.links) :
               \E j \in 1..Len(graph.links) : mstree.links[i] = graph.links[j]

\* C2: for every connected weighted graph, the sum of the weights of
\* mst(graph).links is the minimum of that sum over all spanning trees.
MstWeightIsMinimum ==
    (call = "mst" /\ ConnectedGraph(graph)) =>
        /\ mstree.outcome = "returned"
        /\ \A tr \in SpanningTrees(graph) : TotalWeight(mstree.links) <= TotalWeight(tr)
        /\ \E tr \in SpanningTrees(graph) : TotalWeight(mstree.links) = TotalWeight(tr)

---------------------------------------------------------------------------
(* C10 -- the order in which mst examines the links.                       *)

\* the place of a popped link in graph.links (its insertion order)
InsertionIndex(l) == CHOOSE i \in 1..Len(graph.links) : graph.links[i] = l

---------------------------------------------------------------------------
(* C7 -- the adaptive binning loop terminates.                             *)

\* C7, for the options record the claim singles out, one with no binType:
\* whatever startBinGridSize, minBins and maxBins are, the binning of
\* scagScorer comes to an end (the loop exits, or stops at a cap).
BinningEndsWithoutBinType ==
    (pc = "start" /\ options.binType # "hexagon") ~> (pc = "binned")

---------------------------------------------------------------------------
(* C8 -- a supplied options.outlyingUpperBound is the bound that is used.  *)

\* C8: when options.outlyingUpperBound is supplied, the outlyingUpperBound
\* stored on the result and the bound passed to Convex both equal it.
SuppliedBoundIsUsed ==
    options.outlyingUpperBound # Undefined =>
        /\ pc \in {"convex", "scored"} =>
               thisInstance.outlyingUpperBound = options.outlyingUpperBound
        /\ pc = "scored" => convexBound = options.outlyingUpperBound

---------------------------------------------------------------------------
(* C9 -- sortVerticies orders the vertices by angle around the centroid.   *)

Next1(i, n) == IF i = n THEN 1 ELSE i + 1

\* the steps of the closed polygon on which the bearing grows / falls
Ascents(h, points) ==
    {i \in 1..Len(h) : BearingLess(Dir(FromCentroid(h[i], points)),
                                   Dir(FromCentroid(h[Next1(i, Len(h))], points)))}
Descents(h, points) ==
    {i \in 1..Len(h) : BearingLess(Dir(FromCentroid(h[Next1(i, Len(h))], points)),
                                   Dir(FromCentroid(h[i], points)))}

\* C9: the array sortVerticies returns goes once around the centroid in the
\* order of the angle.  Going round counter-clockwise the angle grows on
\* every step but the one that closes the polygon; whichever way the y axis
\* is drawn, the bearing then turns back on at most one step.
SortVerticiesOrdersByAngle ==
    call = "sortVerticies" =>
        \/ Cardinality(Ascents(hull, vertices)) <= 1
        \/ Cardinality(Descents(hull, vertices)) <= 1

---------------------------------------------------------------------------
(* C11, C16 -- DisjointSet after any sequence of makeSet and union calls.  *)

\* the ids a chain of union calls joins to an id of S
RECURSIVE Chain(_)
Chain(S) ==
    LET step == S \cup UNION {u \in unions : u \cap S # {}}
    IN  IF step = S THEN S ELSE Chain(step)

\* the disjoint sets the calls so far describe: one per id passed to
\* makeSet, merged along the union calls
SetsMade == {Chain({a}) : a \in made}

\* C11: after any sequence of makeSet and union calls, size() is the
\* current number of disjoint sets.
SizeCountsDisjointSets == size(disjointSet) = Cardinality(SetsMade)

\* following parent_ from id for n steps
RECURSIVE Ancestor(_, _, _)
Ancestor(index, id, n) == IF n = 0 THEN id ELSE Ancestor(index, index[id].parent_, n - 1)

\* C16: parent pointers form no cycle but a root pointing to itself; find(a)
\* equals find(b) exactly when a chain of union calls joins a and b; find of
\* an id never passed to makeSet is undefined, and a union that involves
\* such an id changes nothing (it brings no such id into the index).
FindTellsTheSetsApart ==
    /\ \A id \in DOMAIN disjointSet.index_ :
           LET top == Ancestor(disjointSet.index_, id, Cardinality(DOMAIN disjointSet.index_))
           IN  disjointSet.index_[top].parent_ = top
    /\ \A a \in made, b \in made : (find(disjointSet, a) = find(disjointSet, b)) <=> (b \in Chain({a}))
    /\ \A a \in Points \ made : find(disjointSet, a) = Undefined
    /\ DOMAIN disjointSet.index_ \subseteq made

---------------------------------------------------------------------------
(* C12, C13 -- delaunayFromPoints on a collinear site list.                *)

LexLess(a, b) == a[1] < b[1] \/ (a[1] = b[1] /\ a[2] < b[2])

\* C12: delaunay.points holds the sites sorted by x then y, and the
\* comparator places a before b exactly when a.x < b.x, or a.x = b.x and
\* a.y < b.y, for every pair of sites.
CollinearSitesSortedByXThenY ==
    call = "delaunayFromPoints" =>
        /\ \A i, j \in 1..Len(delaunay.points) :
               i < j => LexLess(delaunay.points[i], delaunay.points[j])
        /\ \A i, j \in 1..Len(sites) :
               (compareSites(sites[i], sites[j]) < 0) <=> LexLess(sites[i], sites[j])

\* C13: the triangles array is a flat list of index triples: its length is
\* a multiple of 3, every index lies in 0..n-1, and the three indices of
\* each triple are pairwise distinct.
FanIsListOfIndexTriples ==
    call = "delaunayFromPoints" =>
        LET tgs == delaunay.triangles
            n   == Len(sites)
        IN  /\ Len(tgs) % 3 = 0
            /\ \A i \in 1..Len(tgs) : tgs[i] \in 0..(n - 1)
            /\ \A t \in 0..((Len(tgs) \div 3) - 1) :
                   /\ tgs[3 * t + 1] # tgs[3 * t + 2]
                   /\ tgs[3 * t + 2] # tgs[3 * t + 3]
                   /\ tgs[3 * t + 1] # tgs[3 * t + 3]

---------------------------------------------------------------------------
(* C14 -- concaveHull1 returns boundary edges only.                        *)

\* how often the unordered pair of edge occurs among the cells cs
Occurrences(edge, cs) ==
    Cardinality({n \in 1..Len(cs) : {cs[n][1], cs[n][2]} = {edge[1], edge[2]}})

---------------------------------------------------------------------------
(* C15 -- processCells partitions the cells into connected components.     *)

\* the vertices a chain of the given cells joins to a vertex of S
RECURSIVE CellChain(_)
CellChain(S) ==
    LET step == S \cup UNION {{cellsIn[n][1], cellsIn[n][2]} :
                                  n \in {m \in 1..Len(cellsIn) :
                                             {cellsIn[m][1], cellsIn[m][2]} \cap S # {}}}
    IN  IF step = S THEN S ELSE CellChain(step)

\* the connected components of the graph whose edges are the cells
CellComponents ==
    {CellChain({v}) : v \in UNION {{cellsIn[n][1], cellsIn[n][2]} : n \in 1..Len(cellsIn)}}

\* C15: for every list of cells, in any order, processCells terminates, and
\* the vertex sets it produces are exactly the connected components of the
\* graph whose edges are the cells (pairwise disjoint, each cell inside one
\* set, two vertices together only if a chain of cells joins them).
ProcessCellsFindsComponents ==
    /\ <>(call = "processCells returned")
    /\ [](call = "processCells returned" =>
            /\ {hulls[i] : i \in 1..Len(hulls)} = CellComponents
            /\ Len(hulls) = Cardinality(CellComponents))

\* the second cell touches no end of the first one, is passed over in the
\* first call and joins the hull of the first cell in a later call, through
\* a third cell
ProcessCellsLateCell ==
    /\ call = "processCells returned"
    /\ Len(cellsIn) >= 3
    /\ Len(hulls) = 1
    /\ {cellsIn[2][1], cellsIn[2][2]} \cap {cellsIn[1][1], cellsIn[1][2]} = {}
    /\ cellsIn[2][1] \in hulls[1]
    /\ cellsIn[1][1] \in hulls[1]

=============================================================================
